---- MODULE Spec2Model ----
(***************************************************************************)
(* Model of the persistent hybrid retrieval core of NyayNeti:              *)
(*   backend/core/vector_store.py  (PersistentVectorStore)                 *)
(*   backend/core/llm_engine.py    (LLMEngine.answer_question_stream)      *)
(* The store keeps a FAISS index, a chunk list and a document mapping in   *)
(* memory and writes them to three files; the engine streams answers and   *)
(* keeps a bounded query cache.                                            *)
(***************************************************************************)
EXTENDS Integers, Sequences, FiniteSets, TLC

(***************************************************************************)
(* Bounds of the model.                                                    *)
(***************************************************************************)
\* most chunks handed to one add_document call
MaxChunks == 2
\* add_document is not called once the FAISS index holds this many rows
MaxIndex == 2
\* most save() calls that fail in one run
MaxFaults == 1
\* most tokens the language model streams for one answer
MaxTokens == 2

\* hits in a search result handed to the relevance filter
MaxHits == 5

\* LLMEngine.__init__: self.max_cache_size = 150, scaled down to 2 entries
max_cache_size == 2

\* PersistentVectorStore.__init__(dimension=384)
dimension == 384

DocIds == {"A", "B"}
Texts == {"t1", "t2"}
\* an embedding row: a direction and a length; normalize_L2 sets the length to 1
Dirs == {"x", "y"}
RawVectors == [dir : Dirs, mag : {1, 2}]

\* the request threads that run the upload route
Threads == {"t1", "t2"}

\* a thread that is not inside add_document
NoFrame ==
    [at |-> "idle", doc_id |-> "", chunks |-> <<>>, embeddings |-> <<>>,
     start_idx |-> 0, end_idx |-> 0, i |-> 0]

(***************************************************************************)
(* State.                                                                  *)
(***************************************************************************)
VARIABLES
    index,              \* self.index: the rows of the FAISS IndexFlatL2
    documents,          \* self.documents: list of DocumentChunk
    doc_id_to_indices,  \* self.doc_id_to_indices: dict in insertion order
    bm25,               \* self.bm25: None or the BM25Okapi corpus
    disk,               \* faiss.index, documents.pkl, doc_mapping.json
    unit,               \* which of the three files one save() wrote together
    faults,             \* how many save() calls have failed so far
    ret,                \* what the last call returned to its caller
    frame               \* per upload thread: where its add_document call
                        \* stands, and the arguments and locals of the call

storeVars == <<index, documents, doc_id_to_indices, bm25, disk, unit, faults,
              ret, frame>>

(***************************************************************************)
(* Helpers on sequences.                                                   *)
(***************************************************************************)
RECURSIVE SelectDocs(_, _)
\* [doc for doc in docs if doc.doc_id != d]
SelectDocs(docs, d) ==
    IF docs = <<>> THEN <<>>
    ELSE IF Head(docs).doc_id # d
         THEN <<Head(docs)>> \o SelectDocs(Tail(docs), d)
         ELSE SelectDocs(Tail(docs), d)

\* doc_id in self.doc_id_to_indices
HasDoc(map, d) == \E i \in 1..Len(map) : map[i].doc_id = d

\* self.doc_id_to_indices[d]
Lookup(map, d) == map[CHOOSE i \in 1..Len(map) : map[i].doc_id = d]

\* self.doc_id_to_indices[d] = entry: a present key keeps its place in the dict
SetEntry(map, entry) ==
    IF HasDoc(map, entry.doc_id)
    THEN [i \in 1..Len(map) |->
            IF map[i].doc_id = entry.doc_id THEN entry ELSE map[i]]
    ELSE Append(map, entry)

\* delete_document as it would be without "del self.doc_id_to_indices[...]"
DelEntryKeeps(map, d) == map

\* del self.doc_id_to_indices[d]
DelEntry(map, d) == SelectDocs(map, d)

\* faiss.normalize_L2 on one row: a zero row stays zero
NormalizeL2(v) == IF v.mag = 0 THEN v ELSE [dir |-> v.dir, mag |-> 1]

(***************************************************************************)
(* The store as a value, and the empty store of __init__.                  *)
(***************************************************************************)
Store(i, d, m) == [index |-> i, documents |-> d, doc_id_to_indices |-> m]

EmptyStore == Store(<<>>, <<>>, <<>>)

CurrentStore == Store(index, documents, doc_id_to_indices)

\* _refresh_bm25: None without documents, else a corpus of every chunk text
RefreshBm25(docs) ==
    IF docs = <<>> THEN [present |-> FALSE, corpus |-> <<>>]
    ELSE [present |-> TRUE, corpus |-> [i \in 1..Len(docs) |-> docs[i].text]]

(***************************************************************************)
(* Persisted artifacts.  A file is missing, readable ("ok") or unreadable  *)
(* ("corrupt": reading it raises).                                         *)
(***************************************************************************)
Missing == [st |-> "missing", val |-> <<>>]
Corrupt == [st |-> "corrupt", val |-> <<>>]
Written(v) == [st |-> "ok", val |-> v]

EmptyDisk == [faiss_index |-> Missing, documents_pkl |-> Missing,
              doc_mapping_json |-> Missing]

\* A write that raises leaves the file as it was, or truncated.
Faults == {[at |-> 0, partial |-> FALSE]}
          \cup [at : 1..3, partial : BOOLEAN]

FailedWrite(old, f) == IF f.partial THEN Corrupt ELSE old

\* save() as it would be if documents.pkl were written from the chunk list
\* minus its last chunk
SaveDiskShort(s, d, f) ==
    [faiss_index |->
        IF f.at = 1 THEN FailedWrite(d.faiss_index, f)
        ELSE Written(s.index),
     documents_pkl |->
        IF f.at = 1 THEN d.documents_pkl
        ELSE IF f.at = 2 THEN FailedWrite(d.documents_pkl, f)
        ELSE Written(SubSeq(s.documents, 1, Len(s.documents) - 1)),
     doc_mapping_json |->
        IF f.at \in {1, 2} THEN d.doc_mapping_json
        ELSE IF f.at = 3 THEN FailedWrite(d.doc_mapping_json, f)
        ELSE Written(s.doc_id_to_indices)]

\* save(): three writes in order; the first that raises ends the save.
SaveDisk(s, d, f) ==
    [faiss_index |->
        IF f.at = 1 THEN FailedWrite(d.faiss_index, f)
        ELSE Written(s.index),
     documents_pkl |->
        IF f.at = 1 THEN d.documents_pkl
        ELSE IF f.at = 2 THEN FailedWrite(d.documents_pkl, f)
        ELSE Written(s.documents),
     doc_mapping_json |->
        IF f.at \in {1, 2} THEN d.doc_mapping_json
        ELSE IF f.at = 3 THEN FailedWrite(d.doc_mapping_json, f)
        ELSE Written(s.doc_id_to_indices)]

\* Which files of the directory were written by one and the same save():
\* id for faiss.index and documents.pkl, dm for documents.pkl and
\* doc_mapping.json.  A save that gets past a file rewrites every file before it.
WholeUnit == [id |-> TRUE, dm |-> TRUE]

SaveUnit(u, f) ==
    IF f.at = 0 THEN WholeUnit
    ELSE IF f.at = 1 THEN [u EXCEPT !.id = u.id /\ ~f.partial]
    ELSE IF f.at = 2 THEN [id |-> FALSE, dm |-> u.dm /\ ~f.partial]
    ELSE [id |-> TRUE, dm |-> FALSE]

\* the faults a save() can still meet
FaultsLeft(n) == {f \in Faults : f.at # 0 => n < MaxFaults}

Failed(f) == IF f.at = 0 THEN 0 ELSE 1

\* what save() logs
SaveLog(f) == IF f.at = 0 THEN "saved" ELSE "failed"

\* load() as it would be if the except branch did not reset the store:
\* what was read before the failing read stays
LoadPartial(s, d) ==
    IF d.faiss_index.st = "missing" THEN s
    ELSE IF d.faiss_index.st # "ok" THEN s
    ELSE IF d.documents_pkl.st # "ok"
         THEN Store(d.faiss_index.val, s.documents, s.doc_id_to_indices)
    ELSE IF d.doc_mapping_json.st # "ok"
         THEN Store(d.faiss_index.val, d.documents_pkl.val,
                    s.doc_id_to_indices)
    ELSE Store(d.faiss_index.val, d.documents_pkl.val,
               d.doc_mapping_json.val)

\* load(): called on the store s that __init__ has just set up.
Load(s, d) ==
    IF d.faiss_index.st = "missing" THEN s
    ELSE IF d.faiss_index.st = "ok" /\ d.documents_pkl.st = "ok"
            /\ d.doc_mapping_json.st = "ok"
         THEN Store(d.faiss_index.val, d.documents_pkl.val,
                    d.doc_mapping_json.val)
         ELSE EmptyStore

(***************************************************************************)
(* get_stats and list_documents.                                           *)
(***************************************************************************)
get_stats(s) == [total_documents |-> Len(s.doc_id_to_indices),
                 total_chunks |-> Len(s.documents),
                 index_size |-> Len(s.index)]

list_documents(s) ==
    {s.doc_id_to_indices[i].doc_id : i \in 1..Len(s.doc_id_to_indices)}

\* the chunk texts of one document, in chunk-list order
RECURSIVE TextsOf(_, _)
TextsOf(docs, d) ==
    IF docs = <<>> THEN <<>>
    ELSE IF Head(docs).doc_id = d
         THEN <<Head(docs).text>> \o TextsOf(Tail(docs), d)
         ELSE TextsOf(Tail(docs), d)

(***************************************************************************)
(* Inputs of add_document.                                                 *)
(***************************************************************************)
\* the embedding collaborator: one row per text, deterministic
Embed(t) == IF t = "t1" THEN [dir |-> "x", mag |-> 2]
            ELSE [dir |-> "y", mag |-> 1]

\* the text of a file: "A" reads t1 t2 t1 ..., "B" reads t2 t1 t2 ...
TextAt(doc_id, i) ==
    IF (i % 2 = 1) = (doc_id = "A") THEN "t1" ELSE "t2"

\* the chunk lists an upload of doc_id can hand over, the empty one included
ChunkLists(doc_id) ==
    {[i \in 1..n |-> TextAt(doc_id, i)] : n \in 0..MaxChunks}

\* np.array(embeddings): its ndim, its shape and its rows
EmbeddingsOf(chunks) ==
    [ndim |-> 2, rows |-> Len(chunks), cols |-> dimension,
     vecs |-> [i \in 1..Len(chunks) |-> Embed(chunks[i])]]

\* the arrays a caller can pass for chunks: the right one and the wrong shapes
EmbeddingInputs(chunks) ==
    LET e == EmbeddingsOf(chunks)
    IN  {e,
         [e EXCEPT !.ndim = 1],
         [e EXCEPT !.cols = dimension - 1],
         [e EXCEPT !.rows = Len(chunks) + 1,
                   !.vecs = Append(e.vecs, Embed("t1"))]}

\* chunk_metadata: None, or a list of per-chunk dicts
NoChunkMetadata == [given |-> FALSE, list |-> <<>>]

ChunkMetadataInputs ==
    {NoChunkMetadata}
    \cup {[given |-> TRUE, list |-> [i \in 1..n |-> 1]] : n \in 0..MaxChunks}

\* bool(chunk_metadata): None and the empty list are both falsy
Truthy(cm) == cm.given /\ Len(cm.list) > 0

\* the validation at the head of add_document: TRUE when it raises ValueError
Rejects(chunks, emb, cm) ==
    \/ Len(chunks) = 0
    \/ Truthy(cm) /\ Len(cm.list) # Len(chunks)
    \/ emb.ndim # 2
    \/ emb.cols # dimension
    \/ emb.rows # Len(chunks)

\* the chunk loop as it would be if chunk_id were start_idx for every chunk
NewChunksAtStart(doc_id, chunks, start_idx) ==
    [i \in 1..Len(chunks) |->
        [doc_id |-> doc_id, chunk_id |-> start_idx, text |-> chunks[i]]]

\* the chunk loop as it would be if chunk_id counted from 0 in every call
NewChunksFromZero(doc_id, chunks, start_idx) ==
    [i \in 1..Len(chunks) |->
        [doc_id |-> doc_id, chunk_id |-> i - 1, text |-> chunks[i]]]

\* the DocumentChunk records add_document appends
NewChunks(doc_id, chunks, start_idx) ==
    [i \in 1..Len(chunks) |->
        [doc_id |-> doc_id,
         chunk_id |-> start_idx + (i - 1),
         text |-> chunks[i]]]

\* what a call hands back: raised (an exception reached the caller), else
\* success/error, n (chunks_added or chunks_removed), total_chunks, and what
\* the save() inside the call logged
Ret(op, doc, raised, success, error, n, total, save) ==
    [op |-> op, doc_id |-> doc, raised |-> raised, success |-> success,
     error |-> error, n |-> n, total_chunks |-> total, save |-> save]

Started == Ret("init", "", FALSE, TRUE, "", 0, 0, "none")

(***************************************************************************)
(* State of the engine: the query cache and the answer requests in flight. *)
(* A request is the generator answer_question_stream returns; the caller   *)
(* resumes it with next() and it runs to its next yield.                   *)
(***************************************************************************)
VARIABLES
    cache,          \* self.cache: dict in insertion order, as <<key, text>> list
    pc,             \* per request: where the generator is suspended
    question,       \* per request: the question argument
    full_response,  \* per request: the text accumulated from the model
    out,            \* per request: the items yielded to the caller, in order
    llm,            \* per request: the token stream _call_llm returned
    before,         \* per request: the cache as the request found it
    previous,       \* per request: the cache key of the request that was
                    \* the last to complete when this one began
    order,          \* the keys the cache holds, in the order of their
                    \* insertion
    retrieved,      \* per request: whether search was called, its result
                    \* and the chunks the context was built from
    restriction,    \* per request: the doc_id argument, "" for None
    origin,         \* per cache key: the doc_id argument and the search
                    \* result of the request that wrote the entry
    served          \* the last request that ran to completion: its cache key
                    \* and the answer text its caller received

engineVars == <<cache, pc, question, full_response, out, llm, before,
               previous, order, retrieved, restriction, origin, served>>

vars == <<storeVars, engineVars>>

Requests == {"r1", "r2"}

\* questions as character lists, so that strip() and lower() can be computed
Questions == {<<"q">>, <<" ", "Q">>, <<"r">>, <<"s">>}

\* str.lower on one character
LowerChar(c) == IF c = "Q" THEN "q" ELSE c

RECURSIVE LStrip(_)
\* drop leading blanks
LStrip(q) ==
    IF q # <<>> /\ Head(q) = " " THEN LStrip(Tail(q)) ELSE q

RECURSIVE RStrip(_)
\* drop trailing blanks
RStrip(q) ==
    IF q # <<>> /\ q[Len(q)] = " " THEN RStrip(SubSeq(q, 1, Len(q) - 1)) ELSE q

\* cache_key = question.strip().lower()
CacheKey(q) ==
    LET t == RStrip(LStrip(q)) IN [i \in 1..Len(t) |-> LowerChar(t[i])]

\* cache_key in self.cache
InCache(c, k) == \E i \in 1..Len(c) : c[i].key = k

\* self.cache[cache_key]
CacheGet(c, k) == c[CHOOSE i \in 1..Len(c) : c[i].key = k].text

\* self.cache[cache_key] = text: a present key keeps its place
CacheSet(c, k, text) ==
    IF InCache(c, k)
    THEN [i \in 1..Len(c) |->
            IF c[i].key = k THEN [key |-> k, text |-> text] ELSE c[i]]
    ELSE Append(c, [key |-> k, text |-> text])

\* the cache write as it would be if full_response were set to each token
\* instead of being added to
CacheWriteLastToken(c, k, text) ==
    CacheSet(IF Len(c) >= max_cache_size THEN Tail(c) ELSE c, k,
             IF text = <<>> THEN text ELSE <<text[Len(text)]>>)

\* the cache write as it would be if the newest key were dropped at capacity
CacheWriteDropsNewest(c, k, text) ==
    CacheSet(IF Len(c) >= max_cache_size THEN SubSeq(c, 1, Len(c) - 1) ELSE c,
             k, text)

\* "Populating Cache": drop the oldest key at capacity, then store the answer
CacheWrite(c, k, text) ==
    CacheSet(IF Len(c) >= max_cache_size THEN Tail(c) ELSE c, k, text)

\* the texts a request can yield besides model tokens
StatusSearching == <<"[STATUS]: Searching">>
StatusReasoning == <<"[STATUS]: Formulating">>
ErrApi == "Ollama API Error"
ErrAI == "[AI Error]"
ErrSystem == "[System Error]"
ErrNoReply == "AI didn't reply"
ErrNoEngine == "ERROR: No AI engine available"

ErrorTokens == {ErrApi, ErrAI, ErrSystem, ErrNoReply, ErrNoEngine}

\* the i-th token the model streams
TokenAt(i) == <<"a", "b", "c", "d">>[i]

\* no stream yet; backend is "local" (GGUF), "ollama" or "none",
\* n counts the model tokens streamed, closing: the stream ends at the next pull
NoStream == [backend |-> "", n |-> 0, closing |-> FALSE]

\* no call of vector_store.search yet
NoRetrieval == [called |-> FALSE, chunks |-> <<>>, context |-> <<>>]

\* doc_id=None
NoDocId == ""

\* no request has run to completion yet
NoneServed == [set |-> FALSE, key |-> <<>>, answer |-> <<>>]

RECURSIVE AnswerText(_)
\* the answer text in the items a caller received: the items joined, the
\* "[STATUS]" lines left out
AnswerText(items) ==
    IF items = <<>> THEN <<>>
    ELSE IF Head(items) \in {StatusSearching, StatusReasoning}
         THEN AnswerText(Tail(items))
         ELSE Head(items) \o AnswerText(Tail(items))

Served(q, items) ==
    [set |-> TRUE, key |-> CacheKey(q), answer |-> AnswerText(items)]

EngineInit ==
    /\ cache = <<>>
    /\ pc = [r \in Requests |-> "idle"]
    /\ question = [r \in Requests |-> <<>>]
    /\ full_response = [r \in Requests |-> <<>>]
    /\ out = [r \in Requests |-> <<>>]
    /\ llm = [r \in Requests |-> NoStream]
    /\ before = [r \in Requests |-> <<>>]
    /\ previous = [r \in Requests |-> <<>>]
    /\ order = <<>>
    /\ retrieved = [r \in Requests |-> NoRetrieval]
    /\ restriction = [r \in Requests |-> NoDocId]
    /\ origin = <<>>
    /\ served = NoneServed

(***************************************************************************)
(* Operations of the store.                                                *)
(***************************************************************************)
Init ==
    /\ index = <<>>
    /\ documents = <<>>
    /\ doc_id_to_indices = <<>>
    /\ bm25 = RefreshBm25(<<>>)
    /\ disk = EmptyDisk
    /\ unit = WholeUnit
    /\ faults = 0
    /\ ret = Started
    /\ frame = [t \in Threads |-> NoFrame]
    /\ EngineInit

\* add_document as it would be if the validation ran after the chunk loop
AddRejectedLate(doc_id, chunks, emb, cm) ==
    /\ Rejects(chunks, emb, cm)
    /\ ret' = Ret("add", doc_id, TRUE, FALSE, "ValueError", 0, 0, "none")
    /\ documents' = documents \o NewChunks(doc_id, chunks, Len(index))
    /\ UNCHANGED <<index, doc_id_to_indices, bm25, disk, unit, faults>>
    /\ UNCHANGED <<engineVars, frame>>

\* add_document, rejected by the validation: ValueError reaches the caller
AddRejected(doc_id, chunks, emb, cm) ==
    /\ Rejects(chunks, emb, cm)
    /\ ret' = Ret("add", doc_id, TRUE, FALSE, "ValueError", 0, 0, "none")
    /\ UNCHANGED <<index, documents, doc_id_to_indices, bm25, disk, unit, faults>>
    /\ UNCHANGED <<engineVars, frame>>

\* add_document as it would be if save() re-raised: the failure reaches the
\* caller of add_document
AddAcceptedRaising(doc_id, chunks, emb, cm, f) ==
    /\ ~Rejects(chunks, emb, cm)
    /\ Len(index) + Len(chunks) <= MaxIndex
    /\ LET start_idx == Len(index)
           newIndex == index \o [i \in 1..emb.rows |-> NormalizeL2(emb.vecs[i])]
           end_idx == Len(newIndex)
           newDocs == documents \o NewChunks(doc_id, chunks, start_idx)
           newMap == SetEntry(doc_id_to_indices,
                              [doc_id |-> doc_id, start_idx |-> start_idx,
                               end_idx |-> end_idx,
                               num_chunks |-> Len(chunks)])
       IN  /\ index' = newIndex
           /\ documents' = newDocs
           /\ doc_id_to_indices' = newMap
           /\ disk' = SaveDisk(Store(newIndex, newDocs, newMap), disk, f)
           /\ unit' = SaveUnit(unit, f)
           /\ faults' = faults + Failed(f)
           /\ bm25' = IF f.at = 0 THEN RefreshBm25(newDocs) ELSE bm25
           /\ ret' = IF f.at = 0
                     THEN Ret("add", doc_id, FALSE, TRUE, "", Len(chunks),
                              Len(newIndex), SaveLog(f))
                     ELSE Ret("add", doc_id, TRUE, FALSE, "OSError", 0, 0,
                              SaveLog(f))
    /\ UNCHANGED <<engineVars, frame>>

\* add_document, accepted: index.add, append chunks, set mapping, save, BM25
AddAccepted(doc_id, chunks, emb, cm, f) ==
    /\ ~Rejects(chunks, emb, cm)
    /\ Len(index) + Len(chunks) <= MaxIndex
    /\ LET start_idx == Len(index)
           newIndex == index \o [i \in 1..emb.rows |-> NormalizeL2(emb.vecs[i])]
           end_idx == Len(newIndex)
           newDocs == documents \o NewChunks(doc_id, chunks, start_idx)
           newMap == SetEntry(doc_id_to_indices,
                              [doc_id |-> doc_id, start_idx |-> start_idx,
                               end_idx |-> end_idx,
                               num_chunks |-> Len(chunks)])
       IN  /\ index' = newIndex
           /\ documents' = newDocs
           /\ doc_id_to_indices' = newMap
           /\ disk' = SaveDisk(Store(newIndex, newDocs, newMap), disk, f)
           /\ unit' = SaveUnit(unit, f)
           /\ faults' = faults + Failed(f)
           /\ bm25' = RefreshBm25(newDocs)
           /\ ret' = Ret("add", doc_id, FALSE, TRUE, "", Len(chunks),
                         Len(newIndex), SaveLog(f))
    /\ UNCHANGED <<engineVars, frame>>

AddDocument ==
    \E doc_id \in DocIds, cm \in ChunkMetadataInputs :
        \E chunks \in ChunkLists(doc_id) : \E emb \in EmbeddingInputs(chunks) :
            \/ AddRejected(doc_id, chunks, emb, cm)
            \/ \E f \in FaultsLeft(faults) : AddAccepted(doc_id, chunks, emb, cm, f)

\* delete_document as it would be if the unknown doc_id also reached save()
DeleteUnknownSaves(doc_id) ==
    /\ ~HasDoc(doc_id_to_indices, doc_id)
    /\ ret' = Ret("delete", doc_id, FALSE, FALSE, "Document not found",
                  0, 0, "none")
    /\ disk' = SaveDisk(CurrentStore, disk, [at |-> 0, partial |-> FALSE])
    /\ UNCHANGED <<index, documents, doc_id_to_indices, bm25, unit, faults>>
    /\ UNCHANGED <<engineVars, frame>>

\* delete_document of a doc_id the mapping does not hold
DeleteUnknown(doc_id) ==
    /\ ~HasDoc(doc_id_to_indices, doc_id)
    /\ ret' = Ret("delete", doc_id, FALSE, FALSE, "Document not found",
                 0, 0, "none")
    /\ UNCHANGED <<index, documents, doc_id_to_indices, bm25, disk, unit, faults>>
    /\ UNCHANGED <<engineVars, frame>>

\* delete_document as it would be if it rebuilt the index from the chunks
\* that stay and renumbered them
DeleteKnownCompacts(doc_id, f) ==
    /\ HasDoc(doc_id_to_indices, doc_id)
    /\ LET chunks_removed == Lookup(doc_id_to_indices, doc_id).num_chunks
           kept == SelectDocs(documents, doc_id)
           newDocs == [i \in 1..Len(kept) |->
                          [kept[i] EXCEPT !.chunk_id = i - 1]]
           newIndex == [i \in 1..Len(kept) |->
                           NormalizeL2(Embed(kept[i].text))]
           newMap == DelEntry(doc_id_to_indices, doc_id)
       IN  /\ documents' = newDocs
           /\ index' = newIndex
           /\ doc_id_to_indices' = newMap
           /\ disk' = SaveDisk(Store(newIndex, newDocs, newMap), disk, f)
           /\ unit' = SaveUnit(unit, f)
           /\ faults' = faults + Failed(f)
           /\ ret' = Ret("delete", doc_id, FALSE, TRUE, "", chunks_removed, 0,
                         SaveLog(f))
           /\ UNCHANGED bm25
    /\ UNCHANGED <<engineVars, frame>>

\* delete_document of a known doc_id: filter chunks, drop the entry, save
DeleteKnown(doc_id, f) ==
    /\ HasDoc(doc_id_to_indices, doc_id)
    /\ LET chunks_removed == Lookup(doc_id_to_indices, doc_id).num_chunks
           newDocs == SelectDocs(documents, doc_id)
           newMap == DelEntry(doc_id_to_indices, doc_id)
       IN  /\ documents' = newDocs
           /\ doc_id_to_indices' = newMap
           /\ disk' = SaveDisk(Store(index, newDocs, newMap), disk, f)
           /\ unit' = SaveUnit(unit, f)
           /\ faults' = faults + Failed(f)
           /\ ret' = Ret("delete", doc_id, FALSE, TRUE, "", chunks_removed, 0,
                         SaveLog(f))
           /\ UNCHANGED <<index, bm25>>
    /\ UNCHANGED <<engineVars, frame>>

DeleteDocument ==
    \E doc_id \in DocIds :
        \/ DeleteUnknown(doc_id)
        \/ \E f \in FaultsLeft(faults) : DeleteKnown(doc_id, f)

\* a new process: __init__ builds an empty store, load()s, refreshes BM25;
\* the engine of the new process starts with an empty cache and no request
Restart ==
    LET s == Load(EmptyStore, disk)
    IN  /\ index' = s.index
        /\ documents' = s.documents
        /\ doc_id_to_indices' = s.doc_id_to_indices
        /\ bm25' = RefreshBm25(s.documents)
        /\ ret' = Started
        /\ frame' = [t \in Threads |-> NoFrame]
        /\ UNCHANGED <<disk, unit, faults>>
        /\ cache' = <<>>
        /\ pc' = [r \in Requests |-> "idle"]
        /\ question' = [r \in Requests |-> <<>>]
        /\ full_response' = [r \in Requests |-> <<>>]
        /\ out' = [r \in Requests |-> <<>>]
        /\ llm' = [r \in Requests |-> NoStream]
        /\ before' = [r \in Requests |-> <<>>]
        /\ previous' = [r \in Requests |-> <<>>]
        /\ order' = <<>>
        /\ retrieved' = [r \in Requests |-> NoRetrieval]
        /\ restriction' = [r \in Requests |-> NoDocId]
        /\ origin' = <<>>
        /\ served' = NoneServed

StoreNext == AddDocument \/ DeleteDocument \/ Restart

StoreSpec == Init /\ [][StoreNext]_vars

(***************************************************************************)
(* search: hybrid retrieval.  Scores are fixed point: One stands for 1.0   *)
(* in a semantic or a keyword score, and the fused score keeps the tenths  *)
(* of its weights, so FusedOne stands for 1.0 there.                       *)
(***************************************************************************)
One == 1000

\* final_score = (v_score * 0.7) + (k_score * 0.3), in tenths
SemanticWeight == 7
KeywordWeight == 3

\* res['score'] * 0.8, in tenths
NeighborWeight == 8

Tenths == 10

FusedOne == Tenths * One

\* cand_k = top_k * 4
CandidateFactor == 4

Min(a, b) == IF a <= b THEN a ELSE b

\* the query vectors a caller passes: three directions, and np.zeros(384)
QueryVectors ==
    [dir : {"x", "y", "-x"}, mag : {2}] \cup {[dir |-> "x", mag |-> 0]}

\* np.array(query_embedding): its row length and its row
QueryEmbeddings ==
    {[cols |-> dimension, vec |-> v] : v \in QueryVectors}
    \cup {[cols |-> dimension - 1, vec |-> [dir |-> "x", mag |-> 2]]}

\* query_text as a list of words and blanks; None and "" are both <<>>
NoQueryText == <<>>

QueryTexts ==
    {NoQueryText, <<"t1">>, <<"T2", " ", "t1", " ", "t2">>, <<"zz">>}

TopKs == {1, 2}

\* doc_ids: None, or a list of document ids
NoDocIds == [given |-> FALSE, ids |-> {}]

DocIdsInputs ==
    {NoDocIds} \cup {[given |-> TRUE, ids |-> S] : S \in {{}, {"A"}, {"B"}}}

\* str.lower on one word
Lower(w) == IF w = "T2" THEN "t2" ELSE LowerChar(w)

\* tokenize: re.findall(r'\w+', text.lower())
Tokenize(text) ==
    SelectSeq([i \in 1..Len(text) |-> Lower(text[i])], LAMBDA w : w # " ")

\* the cosine of two directions
Cos(a, b) ==
    IF a = b THEN 1 ELSE IF {a, b} = {"x", "-x"} THEN 0 - 1 ELSE 0

\* the squared L2 distance IndexFlatL2 reports for two rows
SquaredL2(a, b) ==
    a.mag * a.mag + b.mag * b.mag - 2 * a.mag * b.mag * Cos(a.dir, b.dir)

\* self.index.search(q, k): the offsets of the k nearest rows
IndexSearch(rows, q, k) ==
    LET N == 0..(Len(rows) - 1)
        d(i) == SquaredL2(q, rows[i + 1])
        Nearer(j, i) == d(j) < d(i) \/ (d(j) = d(i) /\ j < i)
    IN  {i \in N : Cardinality({j \in N : Nearer(j, i)}) < k}

\* score = 1.0 - (dist / 2.0)
SemanticScore(dist) == One - (dist * One) \div 2

\* "doc_ids and chunk.doc_id not in doc_ids" is false: an empty list is falsy
Allowed(doc_ids, d) == ~(doc_ids.given /\ doc_ids.ids # {}) \/ d \in doc_ids.ids

\* vector_results: offset -> score
VectorResults(s, q, top_k, doc_ids) ==
    LET cand_k == top_k * CandidateFactor
        hits == IndexSearch(s.index, q, Min(cand_k, Len(s.index)))
        kept == {i \in hits : /\ i < Len(s.documents)
                              /\ Allowed(doc_ids, s.documents[i + 1].doc_id)}
    IN  [i \in kept |-> SemanticScore(SquaredL2(q, s.index[i + 1]))]

\* self.bm25.get_scores(tokens): one score per text of the corpus, here the
\* number of times the text holds a word of the query
Bm25Scores(corpus, tokens) ==
    [i \in 1..Len(corpus) |->
        LET words == Tokenize(<<corpus[i]>>)
        IN  Cardinality({p \in (1..Len(tokens)) \X (1..Len(words)) :
                            tokens[p[1]] = words[p[2]]})]

\* max(bm25_scores) if len(bm25_scores) > 0 else 0
MaxScore(scores) ==
    IF Len(scores) = 0 THEN 0
    ELSE CHOOSE m \in {scores[i] : i \in 1..Len(scores)} :
            \A i \in 1..Len(scores) : scores[i] <= m

\* keyword_results: offset -> score / max_bm25
KeywordResults(s, scores, doc_ids) ==
    LET kept == {i \in 0..(Len(scores) - 1) :
                    Allowed(doc_ids, s.documents[i + 1].doc_id)}
    IN  [i \in kept |-> (scores[i + 1] * One) \div MaxScore(scores)]

\* results.get as it would be with a default of 1.0
GetOrOne(results, idx) == IF idx \in DOMAIN results THEN results[idx] ELSE One

\* results.get(idx, 0)
Get(results, idx) == IF idx \in DOMAIN results THEN results[idx] ELSE 0

\* the fusion as it would be without its weights
final_score_sum(v_score, k_score) == (v_score + k_score) * Tenths

\* final_score = (v_score * 0.7) + (k_score * 0.3)
final_score(v_score, k_score) ==
    v_score * SemanticWeight + k_score * KeywordWeight

\* one entry of the result list; idx is the chunk's offset in the chunk list
\* and anchor the offset of the hit the entry was added for
Entry(docs, idx, score, anchor) ==
    [text |-> docs[idx + 1].text, score |-> score,
     doc_id |-> docs[idx + 1].doc_id, chunk_id |-> docs[idx + 1].chunk_id,
     idx |-> idx, anchor |-> anchor]

\* the sort as it would be if it kept the entries in offset order
SortByOffset(entries) ==
    [n \in 1..Cardinality(entries) |->
        CHOOSE e \in entries :
            Cardinality({f \in entries : f.idx < e.idx}) = n - 1]

\* combined_results.sort(key=score, reverse=True): a stable sort of the
\* entries taken in offset order
SortByScore(entries) ==
    LET Above(f, e) == f.score > e.score \/ (f.score = e.score /\ f.idx < e.idx)
        place(e) == 1 + Cardinality({f \in entries : Above(f, e)})
    IN  [n \in 1..Cardinality(entries) |->
            CHOOSE e \in entries : place(e) = n]

\* the neighbor test as it would be without the comparison of doc_ids
AnyDocument(chunk, res) == TRUE

\* neighbor_chunk.doc_id == res['doc_id']
SameDocument(chunk, res) == chunk.doc_id = res.doc_id

\* the neighbor loop as it would be without seen_chunks
NeverSeen(n, acc) == FALSE

\* neighbor_idx in seen_chunks
Seen(n, acc) == n \in acc.seen

RECURSIVE ExpandOne(_, _, _, _)
\* the loop over [idx - 1, idx, idx + 1] for one hit; acc carries
\* final_output and seen_chunks
ExpandOne(docs, res, offsets, acc) ==
    IF offsets = <<>> THEN acc
    ELSE LET n == Head(offsets)
             taken == /\ ~(n < 0 \/ n >= Len(docs))
                      /\ ~Seen(n, acc)
                      /\ SameDocument(docs[n + 1], res)
             score == IF n = res.idx THEN res.score
                      ELSE (res.score * NeighborWeight) \div Tenths
         IN  ExpandOne(docs, res, Tail(offsets),
                 IF taken
                 THEN [out |-> Append(acc.out, Entry(docs, n, score, res.idx)),
                       seen |-> acc.seen \cup {n}]
                 ELSE acc)

RECURSIVE Expand(_, _, _)
\* the loop over top_results
Expand(docs, top_results, acc) ==
    IF top_results = <<>> THEN acc.out
    ELSE LET res == Head(top_results)
         IN  Expand(docs, Tail(top_results),
                    ExpandOne(docs, res,
                              <<res.idx - 1, res.idx, res.idx + 1>>, acc))

\* what search hands to its caller, and whether it logged a failure
Returned(list) == [failed |-> FALSE, result |-> list]

\* except Exception: logger.error(...); return []
Caught == [failed |-> TRUE, result |-> <<>>]

\* bm25_scores: empty when there is no query text or no lexical index
QueryScores(bm, query_text) ==
    IF query_text # NoQueryText /\ bm.present
    THEN Bm25Scores(bm.corpus, Tokenize(query_text))
    ELSE <<>>

\* self.documents[idx] raises IndexError for a score past the chunk list
index_error(s, bm, query_text) ==
    /\ MaxScore(QueryScores(bm, query_text)) > 0
    /\ Len(QueryScores(bm, query_text)) > Len(s.documents)

\* combined_results after its sort: every fused candidate, best first
combined_results(s, bm, query_embedding, query_text, top_k, doc_ids) ==
    LET q == NormalizeL2(query_embedding.vec)
        vector_results == VectorResults(s, q, top_k, doc_ids)
        bm25_scores == QueryScores(bm, query_text)
        keyword_results == IF MaxScore(bm25_scores) > 0
                           THEN KeywordResults(s, bm25_scores, doc_ids)
                           ELSE <<>>
        all_indices == DOMAIN vector_results \cup DOMAIN keyword_results
    IN  SortByScore({Entry(s.documents, idx,
                           final_score(Get(vector_results, idx),
                                       Get(keyword_results, idx)),
                           idx) : idx \in all_indices})

\* search on the store s with the lexical index bm
search(s, bm, query_embedding, query_text, top_k, doc_ids, include_neighbors) ==
    IF Len(s.index) = 0 THEN Returned(<<>>)
    \* index.search asserts the row length of the query
    ELSE IF query_embedding.cols # dimension THEN Caught
    ELSE IF index_error(s, bm, query_text) THEN Caught
    ELSE
    LET combined == combined_results(s, bm, query_embedding, query_text,
                                     top_k, doc_ids)
        top_results == SubSeq(combined, 1, Min(top_k, Len(combined)))
    IN  IF include_neighbors
        THEN Returned(Expand(s.documents, top_results,
                             [out |-> <<>>, seen |-> {}]))
        ELSE Returned(top_results)

\* what a search call hands back, with the arguments of the call
SearchRet(q, text, top_k, doc_ids, neighbors, found) ==
    [op |-> "search", doc_id |-> "", raised |-> FALSE, success |-> TRUE,
     query_embedding |-> q, query_text |-> text, top_k |-> top_k,
     doc_ids |-> doc_ids, include_neighbors |-> neighbors,
     failed |-> found.failed, result |-> found.result]

\* search(query_embedding, query_text, top_k, doc_ids, include_neighbors).
\* A search changes nothing in the store, so searches that follow one another
\* reach the states one search reaches: one search is taken between two
\* other calls.
Search ==
    /\ ret.op # "search"
    /\ \E query_embedding \in QueryEmbeddings, query_text \in QueryTexts,
          top_k \in TopKs, doc_ids \in DocIdsInputs,
          include_neighbors \in BOOLEAN :
          ret' = SearchRet(query_embedding, query_text, top_k, doc_ids,
                           include_neighbors,
                           search(CurrentStore, bm25, query_embedding,
                                  query_text, top_k, doc_ids,
                                  include_neighbors))
    /\ UNCHANGED <<index, documents, doc_id_to_indices, bm25, disk, unit,
                   faults>>
    /\ UNCHANGED <<engineVars, frame>>

\* a save() that completes
NoFault == [at |-> 0, partial |-> FALSE]

\* add_document with arguments it accepts, in a run whose saves complete
AddSaved ==
    \E doc_id \in DocIds : \E chunks \in ChunkLists(doc_id) :
        AddAccepted(doc_id, chunks, EmbeddingsOf(chunks), NoChunkMetadata,
                    NoFault)

\* delete_document in a run whose saves complete
DeleteSaved ==
    \E doc_id \in DocIds :
        \/ DeleteUnknown(doc_id)
        \/ DeleteKnown(doc_id, NoFault)

\* searches between adds and deletes
SearchNext == AddSaved \/ DeleteSaved \/ Search

SearchSpec == Init /\ [][SearchNext]_vars

\* add_document calls only: no deletion and no restart
AddOnlyNext == AddDocument

AddOnlySpec == Init /\ [][AddOnlyNext]_vars

\* add_document and delete_document calls in any order, in one process: no
\* restart
MutateNext == AddDocument \/ DeleteDocument

MutateSpec == Init /\ [][MutateNext]_vars

(***************************************************************************)
(* add_document statement by statement, for upload threads that share the  *)
(* store: a thread switch can fall between any two statements.  The saves  *)
(* complete.                                                               *)
(***************************************************************************)
\* the rows of the calls that have not reached index.add yet
PendingRows ==
    LET waiting == {t \in Threads : frame[t].at \in {"normalized", "start"}}
        RECURSIVE Sum(_)
        Sum(S) == IF S = {} THEN 0
                  ELSE LET t == CHOOSE x \in S : TRUE
                       IN  Len(frame[t].embeddings) + Sum(S \ {t})
    IN  Sum(waiting)

\* the validation raises ValueError
CallRejected(t, doc_id, chunks, emb, cm) ==
    /\ frame[t].at = "idle"
    /\ Rejects(chunks, emb, cm)
    /\ ret' = Ret("add", doc_id, TRUE, FALSE, "ValueError", 0, 0, "none")
    /\ UNCHANGED <<index, documents, doc_id_to_indices, bm25, disk, unit,
                   faults, frame>>
    /\ UNCHANGED engineVars

\* the validation passes; faiss.normalize_L2(embeddings)
CallAccepted(t, doc_id, chunks, emb, cm) ==
    /\ frame[t].at = "idle"
    /\ ~Rejects(chunks, emb, cm)
    /\ Len(index) + PendingRows + Len(chunks) <= MaxIndex
    /\ frame' = [frame EXCEPT ![t] =
                    [NoFrame EXCEPT
                        !.at = "normalized",
                        !.doc_id = doc_id,
                        !.chunks = chunks,
                        !.embeddings = [i \in 1..emb.rows |->
                                           NormalizeL2(emb.vecs[i])]]]
    /\ UNCHANGED <<index, documents, doc_id_to_indices, bm25, disk, unit,
                   faults, ret>>
    /\ UNCHANGED engineVars

\* the upload route calls add_document with the embeddings of the chunks
\* and one metadata dict per chunk
Call(t) ==
    \E doc_id \in DocIds : \E chunks \in ChunkLists(doc_id) :
        LET emb == EmbeddingsOf(chunks)
            cm == [given |-> TRUE, list |-> [i \in 1..Len(chunks) |-> 1]]
        IN  \/ CallRejected(t, doc_id, chunks, emb, cm)
            \/ CallAccepted(t, doc_id, chunks, emb, cm)

\* start_idx = self.index.ntotal
ReadStart(t) ==
    /\ frame[t].at = "normalized"
    /\ frame' = [frame EXCEPT ![t].start_idx = Len(index), ![t].at = "start"]
    /\ UNCHANGED <<index, documents, doc_id_to_indices, bm25, disk, unit,
                   faults, ret>>
    /\ UNCHANGED engineVars

\* self.index.add(embeddings)
IndexAdd(t) ==
    /\ frame[t].at = "start"
    /\ index' = index \o frame[t].embeddings
    /\ frame' = [frame EXCEPT ![t].at = "added"]
    /\ UNCHANGED <<documents, doc_id_to_indices, bm25, disk, unit, faults,
                   ret>>
    /\ UNCHANGED engineVars

\* end_idx = self.index.ntotal
ReadEnd(t) ==
    /\ frame[t].at = "added"
    /\ frame' = [frame EXCEPT ![t].end_idx = Len(index), ![t].at = "chunks"]
    /\ UNCHANGED <<index, documents, doc_id_to_indices, bm25, disk, unit,
                   faults, ret>>
    /\ UNCHANGED engineVars

\* one pass of the chunk loop as it would be if chunk_id were the length of
\* the chunk list at the append
AppendChunkAtLength(t) ==
    /\ frame[t].at = "chunks"
    /\ frame[t].i < Len(frame[t].chunks)
    /\ documents' = Append(documents,
                           [doc_id |-> frame[t].doc_id,
                            chunk_id |-> Len(documents),
                            text |-> frame[t].chunks[frame[t].i + 1]])
    /\ frame' = [frame EXCEPT ![t].i = @ + 1]
    /\ UNCHANGED <<index, doc_id_to_indices, bm25, disk, unit, faults, ret>>
    /\ UNCHANGED engineVars

\* one pass of the chunk loop: global_chunk_id = start_idx + i, append
AppendChunk(t) ==
    /\ frame[t].at = "chunks"
    /\ frame[t].i < Len(frame[t].chunks)
    /\ documents' = Append(documents,
                           NewChunks(frame[t].doc_id, frame[t].chunks,
                                     frame[t].start_idx)[frame[t].i + 1])
    /\ frame' = [frame EXCEPT ![t].i = @ + 1]
    /\ UNCHANGED <<index, doc_id_to_indices, bm25, disk, unit, faults, ret>>
    /\ UNCHANGED engineVars

\* the loop is over: self.doc_id_to_indices[doc_id] = {...}
SetMapping(t) ==
    /\ frame[t].at = "chunks"
    /\ frame[t].i = Len(frame[t].chunks)
    /\ doc_id_to_indices' =
           SetEntry(doc_id_to_indices,
                    [doc_id |-> frame[t].doc_id,
                     start_idx |-> frame[t].start_idx,
                     end_idx |-> frame[t].end_idx,
                     num_chunks |-> Len(frame[t].chunks)])
    /\ frame' = [frame EXCEPT ![t].at = "mapped"]
    /\ UNCHANGED <<index, documents, bm25, disk, unit, faults, ret>>
    /\ UNCHANGED engineVars

\* self.save(), self._refresh_bm25(), return
SaveAndReturn(t, f) ==
    /\ frame[t].at = "mapped"
    /\ disk' = SaveDisk(CurrentStore, disk, f)
    /\ unit' = SaveUnit(unit, f)
    /\ faults' = faults + Failed(f)
    /\ bm25' = RefreshBm25(documents)
    /\ ret' = Ret("add", frame[t].doc_id, FALSE, TRUE, "",
                  Len(frame[t].chunks), Len(index), SaveLog(f))
    /\ frame' = [frame EXCEPT ![t] = NoFrame]
    /\ UNCHANGED <<index, documents, doc_id_to_indices>>
    /\ UNCHANGED engineVars

ThreadsNext ==
    \E t \in Threads :
        \/ Call(t)
        \/ ReadStart(t)
        \/ IndexAdd(t)
        \/ ReadEnd(t)
        \/ AppendChunk(t)
        \/ SetMapping(t)
        \/ SaveAndReturn(t, NoFault)

ThreadsSpec == Init /\ [][ThreadsNext]_vars

(***************************************************************************)
(* The language-model collaborator as _call_llm(prompt, stream=True) sees  *)
(* it: what the next pull on the token stream l can give.                  *)
(*   token: a text is yielded;  end: the stream is exhausted;              *)
(*   raise: the pull raises (the local model's generator is not guarded).  *)
(***************************************************************************)
Yields(text, l, closing) ==
    [kind |-> "token", text |-> text,
     llm |-> [l EXCEPT !.closing = closing]]

YieldsToken(l) ==
    [kind |-> "token", text |-> TokenAt(l.n + 1),
     llm |-> [l EXCEPT !.n = l.n + 1]]

Ends(l) == [kind |-> "end", text |-> "", llm |-> l]

Raises(l) == [kind |-> "raise", text |-> "", llm |-> l]

ModelTokens(l) == IF l.n < MaxTokens THEN {YieldsToken(l)} ELSE {}

\* _call_llm: the local model, else _call_ollama_stream, else the error text
PullOutcomes(l) ==
    IF l.closing THEN {Ends(l)}
    ELSE IF l.backend = "none" THEN {Yields(ErrNoEngine, l, TRUE)}
    ELSE IF l.backend = "local"
         THEN ModelTokens(l) \cup {Ends(l), Raises(l)}
    ELSE ModelTokens(l)
         \cup {Yields(ErrAI, l, TRUE), Yields(ErrSystem, l, TRUE)}
         \cup (IF l.n = 0
               THEN {Yields(ErrApi, l, TRUE), Yields(ErrNoReply, l, TRUE)}
               ELSE {Ends(l)})

Backends == {"local", "ollama", "none"}

(***************************************************************************)
(* answer_question_stream, one action per resumption of the generator.     *)
(***************************************************************************)
Finished == {"idle", "done", "cancelled", "failed"}

Suspended == {"created", "hit", "searching", "formulating", "token"}

\* answer_question_stream(question, doc_id): the generator object is made,
\* nothing has run yet
Ask(r, q, doc_id) ==
    /\ pc[r] \in Finished
    /\ pc' = [pc EXCEPT ![r] = "created"]
    /\ question' = [question EXCEPT ![r] = q]
    /\ full_response' = [full_response EXCEPT ![r] = <<>>]
    /\ out' = [out EXCEPT ![r] = <<>>]
    /\ llm' = [llm EXCEPT ![r] = NoStream]
    /\ before' = [before EXCEPT ![r] = cache]
    /\ previous' = [previous EXCEPT ![r] = served.key]
    /\ retrieved' = [retrieved EXCEPT ![r] = NoRetrieval]
    /\ restriction' = [restriction EXCEPT ![r] = doc_id]
    /\ UNCHANGED <<cache, order, origin, served, storeVars>>

\* the caller asks without a doc_id
Begin(r, q) == Ask(r, q, NoDocId)

\* the cache check as it would be if a hit moved its entry to the newest place
CheckCacheMovesHit(r) ==
    /\ pc[r] = "created"
    /\ LET cache_key == CacheKey(question[r])
       IN  IF InCache(cache, cache_key)
           THEN /\ out' = [out EXCEPT ![r] =
                              Append(@, CacheGet(cache, cache_key))]
                /\ pc' = [pc EXCEPT ![r] = "hit"]
                /\ cache' = Append(SelectSeq(cache,
                                             LAMBDA e : e.key # cache_key),
                                   [key |-> cache_key,
                                    text |-> CacheGet(cache, cache_key)])
           ELSE /\ out' = [out EXCEPT ![r] = Append(@, StatusSearching)]
                /\ pc' = [pc EXCEPT ![r] = "searching"]
                /\ UNCHANGED cache
    /\ UNCHANGED <<question, full_response, llm, before, retrieved, served,
                   storeVars>>
    /\ UNCHANGED <<previous, order, restriction, origin>>

\* first next(): the cache check; a hit yields the stored answer,
\* a miss yields the first status line
CheckCache(r) ==
    /\ pc[r] = "created"
    /\ LET cache_key == CacheKey(question[r])
       IN  IF InCache(cache, cache_key)
           THEN /\ out' = [out EXCEPT ![r] =
                              Append(@, CacheGet(cache, cache_key))]
                /\ pc' = [pc EXCEPT ![r] = "hit"]
           ELSE /\ out' = [out EXCEPT ![r] = Append(@, StatusSearching)]
                /\ pc' = [pc EXCEPT ![r] = "searching"]
    /\ UNCHANGED <<cache, question, full_response, llm, before, retrieved,
                   served, storeVars>>
    /\ UNCHANGED <<previous, order, restriction, origin>>

\* the keys of the cache c in the order of their insertion, after a write
\* of key k: ord without the keys that left, and k last if it is new
Inserted(ord, c, k) ==
    LET kept == SelectSeq(ord, LAMBDA x : InCache(c, x))
    IN  IF \E i \in 1..Len(kept) : kept[i] = k THEN kept ELSE Append(kept, k)

\* what the ghost origin holds after a write of key k, for a request with
\* argument doc_id whose search returned chunks, onto the cache c
OriginSet(o, c, k, doc_id, chunks) ==
    Append(SelectSeq(o, LAMBDA e : InCache(c, e.key) /\ e.key # k),
           [key |-> k, doc_id |-> doc_id, chunks |-> chunks])

\* the end of the hit path as it would be if a hit made its entry the newest
FinishHitTouches(r) ==
    /\ pc[r] = "hit"
    /\ pc' = [pc EXCEPT ![r] = "done"]
    /\ served' = Served(question[r], out[r])
    /\ cache' = Append(SelectSeq(cache,
                                 LAMBDA e : e.key # CacheKey(question[r])),
                       [key |-> CacheKey(question[r]),
                        text |-> CacheGet(cache, CacheKey(question[r]))])
    /\ UNCHANGED <<question, full_response, out, llm, before, retrieved,
                   storeVars>>
    /\ UNCHANGED <<previous, order, restriction, origin>>

\* next() after the cached answer: the generator returns
FinishHit(r) ==
    /\ pc[r] = "hit"
    /\ pc' = [pc EXCEPT ![r] = "done"]
    /\ served' = Served(question[r], out[r])
    /\ UNCHANGED <<cache, question, full_response, out, llm, before, retrieved,
                   storeVars>>
    /\ UNCHANGED <<previous, order, restriction, origin>>

\* search_k = 30
search_k == 30

\* emb_model.encode(question)
Encode(q) ==
    [cols |-> dimension,
     vec |-> IF CacheKey(q) = <<"q">> THEN [dir |-> "x", mag |-> 2]
             ELSE [dir |-> "y", mag |-> 2]]

\* score > 0.35, on the scale of the fused scores
MinRelevance == 3500

\* retrieved[:3]
FallbackChunks == 3

\* filtered_retrieved[:12]
ContextCap == 12

\* "Smart Filtering": the chunks above the relevance bound, the first three
\* retrieved chunks when none is, and of these the first twelve
filtered_retrieved(found) ==
    LET above == SelectSeq(found, LAMBDA ch : ch.score > MinRelevance)
        kept == IF above = <<>> /\ found # <<>>
                THEN SubSeq(found, 1, Min(FallbackChunks, Len(found)))
                ELSE above
    IN  SubSeq(kept, 1, Min(ContextCap, Len(kept)))

\* the miss path as it would be if the prompt were built without a search
RetrieveSkipsSearch(r) ==
    /\ pc[r] = "searching"
    /\ out' = [out EXCEPT ![r] = Append(@, StatusReasoning)]
    /\ pc' = [pc EXCEPT ![r] = "formulating"]
    /\ UNCHANGED <<cache, question, full_response, llm, before, retrieved,
                   served, storeVars>>
    /\ UNCHANGED <<previous, order, restriction, origin>>

\* what follows the search call in the same resumption, for the list found
\* that search returned: filter, build the prompt, yield the second status
\* line
BuildContext(r, found) ==
    /\ pc[r] = "searching"
    /\ retrieved' = [retrieved EXCEPT ![r] =
                        [called |-> TRUE, chunks |-> found,
                         context |-> filtered_retrieved(found)]]
    /\ out' = [out EXCEPT ![r] = Append(@, StatusReasoning)]
    /\ pc' = [pc EXCEPT ![r] = "formulating"]
    /\ UNCHANGED <<cache, question, full_response, llm, before, served,
                   storeVars>>
    /\ UNCHANGED <<previous, order, restriction, origin>>

\* doc_ids=[doc_id] if doc_id else None
DocIdsOf(doc_id) ==
    IF doc_id = NoDocId THEN NoDocIds ELSE [given |-> TRUE, ids |-> {doc_id}]

\* self.vector_store.search(q_emb, question, search_k, doc_ids, True)
Retrieval(q, doc_id) ==
    search(CurrentStore, bm25, Encode(q), q, search_k, DocIdsOf(doc_id),
           TRUE).result

\* next() after the first status line: search, filter, build the prompt,
\* yield the second status line
Retrieve(r) == BuildContext(r, Retrieval(question[r], restriction[r]))

\* the token loop as it would be if it collected the tokens and yielded
\* nothing before the stream ended
PullBuffered(r, l) ==
    \E o \in PullOutcomes(l) :
        /\ llm' = [llm EXCEPT ![r] = o.llm]
        /\ IF o.kind = "token"
           THEN /\ full_response' = [full_response EXCEPT ![r] =
                                        Append(@, o.text)]
                /\ pc' = [pc EXCEPT ![r] = "token"]
                /\ UNCHANGED <<cache, order, origin, out, served>>
           ELSE IF o.kind = "end"
           THEN /\ cache' = CacheWrite(cache, CacheKey(question[r]),
                                       full_response[r])
                /\ order' = Inserted(order, cache', CacheKey(question[r]))
                /\ origin' = OriginSet(origin, cache', CacheKey(question[r]),
                                       restriction[r], retrieved[r].chunks)
                /\ pc' = [pc EXCEPT ![r] = "done"]
                /\ out' = [out EXCEPT ![r] = Append(@, full_response[r])]
                /\ served' = Served(question[r], out'[r])
                /\ UNCHANGED full_response
           ELSE /\ pc' = [pc EXCEPT ![r] = "failed"]
                /\ UNCHANGED <<cache, order, origin, full_response, out,
                               served>>
        /\ UNCHANGED <<question, before, previous, retrieved, restriction,
                       storeVars>>

\* the body of "for token in self._call_llm(...)" for one pull on stream l,
\* and the cache write that follows the loop
Pull(r, l) ==
    \E o \in PullOutcomes(l) :
        /\ llm' = [llm EXCEPT ![r] = o.llm]
        /\ IF o.kind = "token"
           THEN /\ full_response' = [full_response EXCEPT ![r] =
                                        Append(@, o.text)]
                /\ out' = [out EXCEPT ![r] = Append(@, <<o.text>>)]
                /\ pc' = [pc EXCEPT ![r] = "token"]
                /\ UNCHANGED <<cache, order, origin, served>>
           ELSE IF o.kind = "end"
           THEN /\ cache' = CacheWrite(cache, CacheKey(question[r]),
                                       full_response[r])
                /\ pc' = [pc EXCEPT ![r] = "done"]
                /\ order' = Inserted(order, cache', CacheKey(question[r]))
                /\ origin' = OriginSet(origin, cache', CacheKey(question[r]),
                                       restriction[r], retrieved[r].chunks)
                /\ served' = Served(question[r], out[r])
                /\ UNCHANGED <<full_response, out>>
           ELSE /\ pc' = [pc EXCEPT ![r] = "failed"]
                /\ UNCHANGED <<cache, order, origin, full_response, out,
                               served>>
        /\ UNCHANGED <<question, before, previous, retrieved, restriction,
                       storeVars>>

\* next() after the second status line: _call_llm picks the backend,
\* then the first pull
StartGenerate(r) ==
    /\ pc[r] = "formulating"
    /\ \E b \in Backends : Pull(r, [NoStream EXCEPT !.backend = b])

\* next() after a token as it would be if the pull never returned
NextTokenStalls(r) ==
    /\ pc[r] = "token"
    /\ UNCHANGED vars

\* next() after a token: the next pull
NextToken(r) ==
    /\ pc[r] = "token"
    /\ Pull(r, llm[r])

\* closing as it would be if the cache write sat in a finally block
CancelWrites(r) ==
    /\ pc[r] \in {"created", "hit", "searching", "formulating", "token"}
    /\ pc' = [pc EXCEPT ![r] = "cancelled"]
    /\ cache' = CacheWrite(cache, CacheKey(question[r]), full_response[r])
    /\ UNCHANGED <<question, full_response, out, llm, before, retrieved,
                   served, storeVars>>
    /\ UNCHANGED <<previous, order, restriction, origin>>

\* the caller closes the generator: GeneratorExit at the yield it waits in
Cancel(r) ==
    /\ pc[r] \in Suspended
    /\ pc' = [pc EXCEPT ![r] = "cancelled"]
    /\ UNCHANGED <<cache, question, full_response, out, llm, before, retrieved,
                   served, storeVars>>
    /\ UNCHANGED <<previous, order, restriction, origin>>

\* requests served one at a time
Sequential == {"r1"}

EngineNext ==
    \E r \in Sequential :
        \/ \E q \in Questions : Begin(r, q)
        \/ CheckCache(r)
        \/ FinishHit(r)
        \/ Retrieve(r)
        \/ StartGenerate(r)
        \/ NextToken(r)
        \/ Cancel(r)

EngineSpec == Init /\ [][EngineNext]_vars

\* the route's response iterates the generator: as long as the client stays
\* connected, a suspended generator is resumed
Resume ==
    \E r \in Sequential :
        \/ CheckCache(r)
        \/ FinishHit(r)
        \/ Retrieve(r)
        \/ StartGenerate(r)
        \/ NextToken(r)

(***************************************************************************)
(* The filter of the miss path on lists longer than a small store returns: *)
(* the search call is taken to return the expansion of up to MaxHits hits, *)
(* each between its two neighbors, in a document of three chunks per hit.  *)
(***************************************************************************)
\* the fused scores of the hits: one whose neighbors pass the relevance
\* bound too, and two below the bound
HitScores == {5000, 3000, 2800}

\* a document of n chunks, added to an empty store
Corpus(n) ==
    [i \in 1..n |-> [doc_id |-> "A", chunk_id |-> i - 1,
                     text |-> TextAt("A", i)]]

\* top_results for h hits at the offsets 1, 4, 7, ..., best first
TopResults(h) ==
    {[i \in 1..h |-> Entry(Corpus(3 * h), 3 * i - 2, f[i], 3 * i - 2)] :
        f \in {g \in [1..h -> HitScores] :
                  \A i \in 1..(h - 1) : g[i] >= g[i + 1]}}

\* what search(..., include_neighbors=True) returns for these hits
RetrievedLists ==
    UNION {{Expand(Corpus(3 * h), top, [out |-> <<>>, seen |-> {}]) :
               top \in TopResults(h)} : h \in 0..MaxHits}

FilterNext ==
    \E r \in Sequential :
        \/ \E q \in Questions : Begin(r, q)
        \/ CheckCache(r)
        \/ \E found \in RetrievedLists : BuildContext(r, found)

FilterSpec == Init /\ [][FilterNext]_vars

(***************************************************************************)
(* Two requests in flight on one engine: a second caller asks the question *)
(* of a request that is still running; the local model is loaded.          *)
(***************************************************************************)
\* next() after the second status line when self._llm is set
StartLocal(r) ==
    /\ pc[r] = "formulating"
    /\ Pull(r, [NoStream EXCEPT !.backend = "local"])

\* the questions asked one at a time, and the question two callers share
SoloQuestions == {<<"q">>, <<"r">>, <<"s">>}

SharedQuestions == {<<"s">>}

\* a first caller asks while no other request is running
First(r, q) ==
    /\ \A o \in Requests \ {r} : pc[o] \in Finished
    /\ Begin(r, q)

\* a second caller asks the question of the running request o
Second(r, o) ==
    /\ o # r
    /\ pc[o] \in Suspended
    /\ \E q \in SharedQuestions :
          /\ CacheKey(q) = CacheKey(question[o])
          /\ Begin(r, q)

RaceNext ==
    \/ \E q \in SoloQuestions : First("r1", q)
    \/ Second("r2", "r1")
    \/ \E r \in Requests :
          \/ CheckCache(r)
          \/ FinishHit(r)
          \/ Retrieve(r)
          \/ StartLocal(r)
          \/ NextToken(r)

RaceSpec == Init /\ [][RaceNext]_vars

(***************************************************************************)
(* One request at a time, with or without a doc_id, over a store that      *)
(* uploads and deletions change between the requests.                      *)
(***************************************************************************)
\* the question of the request body and its doc_id: None or a document
AskedQuestions == {<<"q">>, <<" ", "Q">>}

DocIdArguments == {NoDocId} \cup DocIds

\* no generator is suspended
Quiet == \A r \in Requests : pc[r] \in Finished

\* the upload route between two requests
AddBetween == Quiet /\ AddSaved

\* the delete route between two requests
DeleteBetween == Quiet /\ DeleteSaved

AskNext ==
    \/ AddBetween
    \/ DeleteBetween
    \/ \E r \in Sequential :
          \/ \E q \in AskedQuestions, doc_id \in DocIdArguments :
                Ask(r, q, doc_id)
          \/ CheckCache(r)
          \/ FinishHit(r)
          \/ Retrieve(r)
          \/ StartLocal(r)
          \/ NextToken(r)

AskSpec == Init /\ [][AskNext]_vars

(***************************************************************************)
(* Requests one at a time by a caller that keeps iterating the generator   *)
(* until it is exhausted, or closes it.                                    *)
(***************************************************************************)
\* two questions, one of them in two spellings
RepeatedQuestions == {<<"q">>, <<" ", "Q">>, <<"r">>}

LiveNext ==
    \E r \in Sequential :
        \/ \E q \in RepeatedQuestions : Begin(r, q)
        \/ CheckCache(r)
        \/ FinishHit(r)
        \/ Retrieve(r)
        \/ StartGenerate(r)
        \/ NextToken(r)
        \/ Cancel(r)

LiveSpec == Init /\ [][LiveNext]_vars /\ WF_vars(Resume)

(***************************************************************************)
(* get_stats and the chunk texts of the store a new process would load.    *)
(***************************************************************************)
FreshStore == Load(EmptyStore, disk)

AllReadable ==
    /\ disk.faiss_index.st = "ok"
    /\ disk.documents_pkl.st = "ok"
    /\ disk.doc_mapping_json.st = "ok"

(***************************************************************************)
(* C1: after a call whose save() completed, a fresh store loaded from the  *)
(* same directory reports the same total_documents, total_chunks and       *)
(* index_size as the store in memory and holds, for every doc_id, the same *)
(* chunk texts in the same order.                                          *)
(***************************************************************************)
C1_RoundTrip ==
    (ret.op \in {"add", "delete"} /\ ret.save = "saved") =>
        /\ get_stats(FreshStore) = get_stats(CurrentStore)
        /\ \A d \in DocIds :
              TextsOf(FreshStore.documents, d) = TextsOf(documents, d)

\* two documents were added and the last save completed
C1_Witness ==
    /\ ret.op = "add"
    /\ ret.save = "saved"
    /\ Len(doc_id_to_indices) = 2
    /\ Len(documents) = 2

(***************************************************************************)
(* C2: whenever add_document has returned its result, a fresh store loaded *)
(* from the directory has the chunk list and the document mapping of the   *)
(* store in memory, also when a write inside save() failed.                *)
(***************************************************************************)
C2_DurableOnReturn ==
    (ret.op = "add" /\ ~ret.raised) =>
        /\ FreshStore.documents = documents
        /\ FreshStore.doc_id_to_indices = doc_id_to_indices

\* the request's generation failed: the pull raised, or the stream carried
\* an error text instead of running to its end
GenerationFailed(r) ==
    \/ pc[r] = "failed"
    \/ \E i \in 1..Len(full_response[r]) : full_response[r][i] \in ErrorTokens

(***************************************************************************)
(* C3: a request whose generation failed (the stream errored after zero or *)
(* more tokens, or no backend was available) ends without changing the     *)
(* cache.                                                                  *)
(***************************************************************************)
C3_FailureNotCached ==
    [][\A r \in Requests :
          (pc[r] \in {"formulating", "token"}
           /\ pc'[r] \in {"done", "failed"}
           /\ GenerationFailed(r)')
          => cache' = cache]_vars

(***************************************************************************)
(* C4: closing a request forwards nothing and writes nothing: a closed     *)
(* request finds the cache as it was when the request began, its output    *)
(* stays as it was at the close, and the only step left to it is the       *)
(* start of a new request.                                                 *)
(***************************************************************************)
C4_CancelLeavesCache ==
    /\ [](\A r \in Requests : pc[r] = "cancelled" => cache = before[r])
    /\ [][\A r \in Requests :
            /\ pc'[r] = "cancelled" => (out'[r] = out[r] /\ cache' = cache)
            /\ pc[r] = "cancelled" => pc'[r] \in {"cancelled", "created"}]_vars

\* a request closed in the middle of generation, with answers already cached
C4_Witness ==
    /\ pc["r1"] = "cancelled"
    /\ Len(full_response["r1"]) >= 1
    /\ Len(cache) >= 1

\* the preconditions of add_document as the specification states them
ViolatesPrecondition(chunks, emb, cm) ==
    \/ Len(chunks) = 0
    \/ emb.ndim # 2
    \/ emb.rows # Len(chunks)
    \/ emb.cols # dimension
    \/ cm.given /\ Len(cm.list) # Len(chunks)

(***************************************************************************)
(* C5: no add_document call whose arguments violate a precondition (empty  *)
(* chunks, embeddings not 2-D, wrong row or column count, a supplied       *)
(* chunk_metadata of another length, the empty list included) is accepted. *)
(***************************************************************************)
C5_RejectsEveryViolation ==
    [][\A doc_id \in DocIds, cm \in ChunkMetadataInputs :
          \A chunks \in ChunkLists(doc_id) :
             \A emb \in EmbeddingInputs(chunks), f \in Faults :
                ViolatesPrecondition(chunks, emb, cm)
                => ~AddAccepted(doc_id, chunks, emb, cm, f)]_vars

(***************************************************************************)
(* C6: a delete_document(d) that reports success removes d from            *)
(* list_documents, lowers total_documents by exactly one, leaves no chunk  *)
(* of d in the chunk list and leaves the vector index as it was.           *)
(***************************************************************************)
C6_DeleteRemoves ==
    [][\A d \in DocIds :
          (ret'.op = "delete" /\ ret'.doc_id = d /\ ret'.success)
          => /\ d \in list_documents(CurrentStore)
             /\ d \notin list_documents(CurrentStore)'
             /\ get_stats(CurrentStore)'.total_documents
                   = get_stats(CurrentStore).total_documents - 1
             /\ TextsOf(documents', d) = <<>>
             /\ index' = index]_vars

\* a document was deleted while another one stays; the index keeps both rows
C6_Witness ==
    /\ ret.op = "delete"
    /\ ret.success
    /\ Len(index) = 2
    /\ Len(documents) = 1
    /\ Len(doc_id_to_indices) = 1

(***************************************************************************)
(* C7: delete_document of a doc_id the mapping does not hold returns       *)
(* success false with an error, raises nothing, and leaves chunk list,     *)
(* mapping, vector index, lexical index and the three files unchanged.     *)
(***************************************************************************)
C7_DeleteUnknown ==
    [][\A d \in DocIds :
          (ret'.op = "delete" /\ ret'.doc_id = d
           /\ ~HasDoc(doc_id_to_indices, d))
          => /\ ~ret'.raised
             /\ ~ret'.success
             /\ ret'.error # ""
             /\ UNCHANGED <<index, documents, doc_id_to_indices, bm25,
                            disk>>]_vars

\* an unknown doc_id was deleted from a store that holds a document whose
\* files are behind the memory
C7_Witness ==
    /\ ret.op = "delete"
    /\ ~ret.success
    /\ Len(documents) >= 1
    /\ FreshStore # CurrentStore

(***************************************************************************)
(* C8: after load() in a new process the store has one of two shapes: all  *)
(* three files were readable and index, chunk list and mapping are their   *)
(* contents, or index, chunk list and mapping are all empty.               *)
(***************************************************************************)
C8_LoadAllOrNothing ==
    ret.op = "init" =>
        \/ /\ AllReadable
           /\ index = disk.faiss_index.val
           /\ documents = disk.documents_pkl.val
           /\ doc_id_to_indices = disk.doc_mapping_json.val
        \/ CurrentStore = EmptyStore

\* load() fell back to the empty store although faiss.index was readable
C8_Witness ==
    /\ ret.op = "init"
    /\ disk.faiss_index.st = "ok"
    /\ Len(disk.faiss_index.val) >= 1
    /\ disk.documents_pkl.st # "ok"
    /\ CurrentStore = EmptyStore

(***************************************************************************)
(* C9: a store that load() filled from the three files holds an index, a   *)
(* chunk list and a mapping written by one and the same save().            *)
(***************************************************************************)
C9_LoadedFromOneSave ==
    (ret.op = "init" /\ AllReadable) => (unit.id /\ unit.dm)

(***************************************************************************)
(* C10: a save() that fails inside add_document or delete_document is not  *)
(* raised: the call returns its success result, and the chunk list, the    *)
(* mapping and the vector index hold the change.                           *)
(***************************************************************************)
C10_SaveFailureSwallowed ==
    [][ret'.save = "failed"
       => /\ ~ret'.raised
          /\ ret'.success
          /\ ret'.op = "add"
             => /\ ret'.n >= 1
                /\ Len(index') = Len(index) + ret'.n
                /\ Len(documents') = Len(documents) + ret'.n
                /\ HasDoc(doc_id_to_indices', ret'.doc_id)
                /\ ret'.total_chunks = Len(index')
          /\ ret'.op = "delete"
             => /\ ~HasDoc(doc_id_to_indices', ret'.doc_id)
                /\ TextsOf(documents', ret'.doc_id) = <<>>
                /\ index' = index]_vars

\* add_document returned success although the chunk list did not reach disk
C10_Witness ==
    /\ ret.op = "add"
    /\ ret.save = "failed"
    /\ ret.success
    /\ Len(documents) >= 1
    /\ FreshStore.documents # documents

(***************************************************************************)
(* C11: search called with a query embedding whose row length is not the   *)
(* store's dimension raises a validation error to its caller; it returns   *)
(* no result list.                                                         *)
(***************************************************************************)
C11_DimensionMismatchRaises ==
    (ret.op = "search" /\ ret.query_embedding.cols # dimension) => ret.raised

C13_Eviction ==
    /\ [](Len(cache) <= max_cache_size)
    /\ [][\A r \in Requests :
            (/\ pc[r] \in {"formulating", "token"}
             /\ pc'[r] = "done"
             /\ ~InCache(cache, CacheKey(question[r])))
            => LET new == [key |-> CacheKey(question[r]),
                           text |-> AnswerText(out'[r])]
               IN  IF Len(cache) < max_cache_size
                   THEN cache' = Append(cache, new)
                   ELSE /\ Len(cache') = max_cache_size
                        /\ ~InCache(cache', cache[1].key)
                        /\ \A i \in 2..Len(cache) : cache'[i - 1] = cache[i]
                        /\ cache'[Len(cache')] = new]_vars

\* a request found the cache full and its completion dropped the oldest key
C13_Witness ==
    /\ pc["r1"] = "done"
    /\ Len(before["r1"]) = max_cache_size
    /\ Len(cache) = max_cache_size
    /\ ~InCache(before["r1"], CacheKey(question["r1"]))
    /\ InCache(cache, CacheKey(question["r1"]))
    /\ ~InCache(cache, before["r1"][1].key)

C15_NeighborScoping ==
    (ret.op = "search" /\ ret.include_neighbors) =>
        \A i \in 1..Len(ret.result) :
            LET e == ret.result[i]
            IN  e.idx # e.anchor
                => /\ e.idx \in {e.anchor - 1, e.anchor + 1}
                   /\ e.doc_id = documents[e.anchor + 1].doc_id
                   /\ e.doc_id = documents[e.idx + 1].doc_id

\* a result list that holds a hit and a neighbor added for it
C15_Witness ==
    /\ ret.op = "search"
    /\ ret.include_neighbors
    /\ \E i, j \in 1..Len(ret.result) :
          /\ ret.result[i].idx # ret.result[i].anchor
          /\ ret.result[j].idx = ret.result[i].anchor

\* the semantic score search gives the chunk an entry was added for
AnchorSemantic(e) ==
    SemanticScore(SquaredL2(NormalizeL2(ret.query_embedding.vec),
                            index[e.anchor + 1]))

C17_DocIdsFilter ==
    (ret.op = "search" /\ ret.doc_ids.given) =>
        \A i \in 1..Len(ret.result) :
            ret.result[i].doc_id \in ret.doc_ids.ids

(***************************************************************************)
(* C18: the list search returns is in non-increasing score order, with     *)
(* include_neighbors false and true.                                       *)
(***************************************************************************)
C18_Ranked ==
    ret.op = "search" =>
        \A i, j \in 1..Len(ret.result) :
            i < j => ret.result[i].score >= ret.result[j].score

(***************************************************************************)
(* C19: after every add_document and delete_document that completes, the   *)
(* lexical index is built over exactly the current chunk list, and is      *)
(* absent exactly when the chunk list is empty.                            *)
(***************************************************************************)
C19_LexicalIndexCurrent ==
    (ret.op \in {"add", "delete"} /\ ~ret.raised) =>
        bm25 = RefreshBm25(documents)

\* the results of the vector side alone for the query q: no query text, no
\* doc_ids, no neighbors
VectorHits(q, top_k) ==
    search(CurrentStore, bm25, q, NoQueryText, top_k, NoDocIds, FALSE).result

(***************************************************************************)
(* C20: in every state reached by add_document calls only, chunk list and  *)
(* vector index have the same length, the chunk at offset i has position i *)
(* and row i holds its embedding; a search hit on row i is that chunk,     *)
(* scored by the distance of the query to the chunk's own embedding.       *)
(***************************************************************************)
C20_PositionsAligned ==
    /\ Len(documents) = Len(index)
    /\ \A i \in 1..Len(documents) :
          /\ documents[i].chunk_id = i - 1
          /\ index[i] = NormalizeL2(Embed(documents[i].text))
    /\ \A q \in QueryEmbeddings, top_k \in TopKs :
          \A i \in 1..Len(VectorHits(q, top_k)) :
             LET e == VectorHits(q, top_k)[i]
                 own == NormalizeL2(Embed(e.text))
             IN  /\ e.chunk_id = e.idx
                 /\ e.score = final_score(SemanticScore(
                                  SquaredL2(NormalizeL2(q.vec), own)), 0)

\* two documents added one after the other; the query along y finds the
\* chunk of the second document in row 1
C20_Witness ==
    /\ Len(doc_id_to_indices) = 2
    /\ Len(index) = 2
    /\ ret.op = "add"
    /\ \E q \in QueryEmbeddings :
          /\ Len(VectorHits(q, 1)) = 1
          /\ VectorHits(q, 1)[1].idx = 1
          /\ VectorHits(q, 1)[1].doc_id = documents[2].doc_id
          /\ VectorHits(q, 1)[1].doc_id # documents[1].doc_id

\* the store add_document(doc_id, chunks) makes of the store s
AfterAdd(s, doc_id, chunks) ==
    Store(s.index \o [i \in 1..Len(chunks) |-> NormalizeL2(Embed(chunks[i]))],
          s.documents \o NewChunks(doc_id, chunks, Len(s.index)),
          SetEntry(s.doc_id_to_indices,
                   [doc_id |-> doc_id, start_idx |-> Len(s.index),
                    end_idx |-> Len(s.index) + Len(chunks),
                    num_chunks |-> Len(chunks)]))

\* some search on the store s returns a vector hit on a row whose chunk has
\* another position than the row
Misresolves(s) ==
    \E q \in QueryEmbeddings, top_k \in 1..Len(s.index) :
        LET found == search(s, RefreshBm25(s.documents), q, NoQueryText,
                            top_k, NoDocIds, FALSE).result
        IN  \E i \in 1..Len(found) : found[i].chunk_id # found[i].idx

(***************************************************************************)
(* C21: after every delete_document that succeeds there is a later search, *)
(* at once or after one more add_document, in which a vector hit on row r  *)
(* is resolved to a chunk whose position is not r.                         *)
(***************************************************************************)
C21_DesyncAfterDelete ==
    (ret.op = "delete" /\ ret.success) =>
        \/ Misresolves(CurrentStore)
        \/ \E doc_id \in DocIds :
              \E chunks \in ChunkLists(doc_id) \ {<<>>} :
                 Misresolves(AfterAdd(CurrentStore, doc_id, chunks))

\* after a delete a search hit on a row is a chunk of another position, and
\* its score is the one of the row, which holds another chunk's embedding
C21_Witness ==
    /\ ret.op = "search"
    /\ ~ret.include_neighbors
    /\ ret.query_text = NoQueryText
    /\ Len(documents) < Len(index)
    /\ \E i \in 1..Len(ret.result) :
          LET e == ret.result[i]
              q == NormalizeL2(ret.query_embedding.vec)
          IN  /\ e.chunk_id # e.idx
              /\ index[e.idx + 1] # NormalizeL2(Embed(e.text))
              /\ e.score = final_score(
                     SemanticScore(SquaredL2(q, index[e.idx + 1])), 0)
              /\ e.score # final_score(
                     SemanticScore(SquaredL2(q, NormalizeL2(Embed(e.text)))), 0)

(***************************************************************************)
(* C22: in every state reached by adds and deletes, positions along the    *)
(* chunk list are strictly increasing: no two chunks share a position and  *)
(* a chunk appended later has a larger position than every earlier one.    *)
(***************************************************************************)
C22_PositionsIncrease ==
    \A i, j \in 1..Len(documents) :
        i < j => documents[i].chunk_id < documents[j].chunk_id

\* a document added after a delete: its chunk sits at offset 0 with a larger
\* position, and the positions of the list still increase
C22_Witness ==
    /\ ret.op = "add"
    /\ Len(documents) >= 1
    /\ Len(documents) < Len(index)
    /\ documents[Len(documents)].chunk_id = Len(index) - 1
    /\ documents[Len(documents)].chunk_id > Len(documents) - 1

\* the positions of the chunks of document d in the chunk list docs
PositionsOf(docs, d) ==
    {docs[i].chunk_id : i \in {j \in 1..Len(docs) : docs[j].doc_id = d}}

(***************************************************************************)
(* C23: in every state reached by adds (a second add of a present doc_id   *)
(* included) and deletes, each entry of the document mapping describes     *)
(* exactly its document's chunks: their positions are [start, end) and     *)
(* chunk_count is end - start.                                             *)
(***************************************************************************)
C23_RangesExact ==
    \A k \in 1..Len(doc_id_to_indices) :
        LET e == doc_id_to_indices[k]
        IN  /\ PositionsOf(documents, e.doc_id) = e.start_idx..(e.end_idx - 1)
            /\ e.num_chunks = e.end_idx - e.start_idx

\* the last search call was made with neighbor expansion and did not fail
ExpandedSearch == ret.op = "search" /\ ret.include_neighbors /\ ~ret.failed

\* the last search call was made without neighbor expansion and did not fail
PlainSearch == ret.op = "search" /\ ~ret.include_neighbors /\ ~ret.failed

\* the top_k fused hits of the last search call, before any expansion
TopHits ==
    search(CurrentStore, bm25, ret.query_embedding, ret.query_text,
           ret.top_k, ret.doc_ids, FALSE).result

\* the fused candidates of the last search call, sorted
Candidates ==
    combined_results(CurrentStore, bm25, ret.query_embedding, ret.query_text,
                     ret.top_k, ret.doc_ids)

\* the entry of the list for chunk-list offset idx
AtOffset(list, idx) ==
    list[CHOOSE j \in 1..Len(list) : list[j].idx = idx]

\* the list has an entry for chunk-list offset idx
HasOffset(list, idx) == \E j \in 1..Len(list) : list[j].idx = idx

(***************************************************************************)
(* C24: in the output of search with include_neighbors, every chunk that   *)
(* is one of the top_k fused hits carries its own fused score, also when   *)
(* it is adjacent to another hit; only the other chunks carry 0.8 times    *)
(* the score of the hit they were added for.                               *)
(***************************************************************************)
C24_HitsKeepOwnScore ==
    ExpandedSearch =>
        \A i \in 1..Len(ret.result) :
            LET e == ret.result[i]
            IN  IF HasOffset(TopHits, e.idx)
                THEN e.score = AtOffset(TopHits, e.idx).score
                ELSE /\ HasOffset(TopHits, e.anchor)
                     /\ e.score = (AtOffset(TopHits, e.anchor).score
                                      * NeighborWeight) \div Tenths

(***************************************************************************)
(* C25: no chunk appears twice in a list returned by search: with or       *)
(* without neighbor expansion every chunk-list offset contributes at most  *)
(* one entry, also when the neighborhoods of several hits overlap.         *)
(***************************************************************************)
C25_NoDuplicates ==
    ret.op = "search" =>
        \A i, j \in 1..Len(ret.result) :
            ret.result[i].idx = ret.result[j].idx => i = j

\* two adjacent hits of one document, each in the other's neighborhood, and
\* two entries returned
C25_Witness ==
    /\ ExpandedSearch
    /\ Len(TopHits) = 2
    /\ TopHits[1].doc_id = TopHits[2].doc_id
    /\ TopHits[1].idx - TopHits[2].idx \in {1, -1}
    /\ Len(ret.result) = 2

\* the normalised query vector of the last search call
QueryRow == NormalizeL2(ret.query_embedding.vec)

\* offset idx is in the vector candidate set of the last search call
VectorSide(idx) ==
    /\ idx \in IndexSearch(index, QueryRow,
                           Min(ret.top_k * CandidateFactor, Len(index)))
    /\ idx < Len(documents)
    /\ Allowed(ret.doc_ids, documents[idx + 1].doc_id)

\* the score lists of the lexical index for the last search call
LexicalScores ==
    IF ret.query_text # NoQueryText /\ bm25.present
    THEN Bm25Scores(bm25.corpus, Tokenize(ret.query_text))
    ELSE <<>>

\* offset idx is in the lexical candidate set of the last search call
LexicalSide(idx) ==
    /\ MaxScore(LexicalScores) > 0
    /\ idx < Len(LexicalScores)
    /\ Allowed(ret.doc_ids, documents[idx + 1].doc_id)

\* 1 - dist / 2 for a vector candidate, 0 for a chunk absent from that side
SemanticPart(idx) ==
    IF VectorSide(idx)
    THEN SemanticScore(SquaredL2(QueryRow, index[idx + 1]))
    ELSE 0

\* score / max_bm25 for a lexical candidate, 0 for a chunk absent from that
\* side
LexicalPart(idx) ==
    IF LexicalSide(idx)
    THEN (LexicalScores[idx + 1] * One) \div MaxScore(LexicalScores)
    ELSE 0

C27_TopK ==
    PlainSearch =>
        /\ Len(ret.result) <= ret.top_k
        /\ Len(ret.result) = Min(ret.top_k, Len(Candidates))
        /\ \A n \in 1..Len(Candidates) :
              ~HasOffset(ret.result, Candidates[n].idx) =>
                  \A i \in 1..Len(ret.result) :
                      Candidates[n].score <= ret.result[i].score

\* top_k = 1 with two candidates: the chunk at offset 1 is returned and the
\* chunk at offset 0, which scores less, is left out
C27_Witness ==
    /\ PlainSearch
    /\ ret.top_k = 1
    /\ Len(Candidates) = 2
    /\ Len(ret.result) = 1
    /\ ret.result[1].idx = 1
    /\ \E n \in 1..2 : Candidates[n].score < ret.result[1].score

\* the keys of the cache c
Keys(c) == {c[i].key : i \in 1..Len(c)}

Arrows ==
    [created     |-> {"hit", "searching", "cancelled"},
     hit         |-> {"done", "cancelled"},
     searching   |-> {"formulating", "cancelled"},
     formulating |-> {"token", "done", "failed", "cancelled"},
     token       |-> {"token", "done", "failed", "cancelled"},
     idle        |-> {"created"},
     done        |-> {"created"},
     failed      |-> {"created"},
     cancelled   |-> {"created"}]

\* the request r is on the miss path and has passed its cache check
OnMissPath(r) == pc[r] \in {"searching", "formulating", "token"}

(***************************************************************************)
(* C29: every request follows the per-request state machine: after the     *)
(* cache check it is on exactly one of the two paths; on a miss search is  *)
(* called before the second status line, which precedes the first token of *)
(* the language model; the cache is written once, when the stream has      *)
(* ended and every token has been forwarded; no request on the hit path    *)
(* writes the cache.                                                       *)
(***************************************************************************)
C29_StateMachine ==
    /\ [](\A r \in Requests :
            /\ pc[r] = "hit" =>
                  ~retrieved[r].called /\ llm[r] = NoStream
            /\ pc[r] = "searching" =>
                  /\ out[r] = <<StatusSearching>>
                  /\ ~retrieved[r].called /\ llm[r] = NoStream
            /\ pc[r] = "formulating" =>
                  /\ out[r] = <<StatusSearching, StatusReasoning>>
                  /\ retrieved[r].called /\ llm[r] = NoStream
            /\ pc[r] = "token" =>
                  /\ retrieved[r].called
                  /\ Len(out[r]) > 2
                  /\ SubSeq(out[r], 1, 2) = <<StatusSearching, StatusReasoning>>)
    /\ [][/\ \A r \in Requests :
              /\ pc'[r] # pc[r] => pc'[r] \in Arrows[pc[r]]
              /\ (pc[r] \in {"created", "hit"} /\ pc'[r] # pc[r])
                    => cache' = cache
          /\ cache' # cache =>
              \E r \in Requests :
                  /\ pc[r] \in {"formulating", "token"}
                  /\ pc'[r] = "done"
                  /\ retrieved[r].called
                  /\ AnswerText(out[r]) = full_response[r]
                  /\ out'[r] = out[r]
                  /\ InCache(cache', CacheKey(question[r]))
                  /\ CacheGet(cache', CacheKey(question[r]))
                        = full_response[r]]_vars

\* a miss ran through search, both status lines and two tokens, and then
\* wrote its answer
C29_Witness ==
    /\ pc["r1"] = "done"
    /\ retrieved["r1"].called
    /\ out["r1"] = <<StatusSearching, StatusReasoning,
                     <<TokenAt(1)>>, <<TokenAt(2)>>>>
    /\ ~InCache(before["r1"], CacheKey(question["r1"]))
    /\ cache = Append(before["r1"],
                      [key |-> CacheKey(question["r1"]),
                       text |-> <<TokenAt(1), TokenAt(2)>>])

(***************************************************************************)
(* C30: during generation each token received from the stream is yielded   *)
(* to the caller in the resumption that received it, before the next pull: *)
(* whenever the generator is suspended, every token received so far has    *)
(* been forwarded.                                                         *)
(***************************************************************************)
C30_TokensForwarded ==
    /\ [](\A r \in Requests :
            retrieved[r].called => AnswerText(out[r]) = full_response[r])
    /\ [][\A r \in Requests :
            (OnMissPath(r) /\ full_response'[r] # full_response[r])
            => /\ Len(full_response'[r]) = Len(full_response[r]) + 1
               /\ out'[r] = Append(out[r],
                      <<full_response'[r][Len(full_response'[r])]>>)]_vars

\* the stream is still open and both tokens received so far are with the
\* caller
C30_Witness ==
    /\ pc["r1"] = "token"
    /\ llm["r1"].n = 2
    /\ ~llm["r1"].closing
    /\ full_response["r1"] = <<TokenAt(1), TokenAt(2)>>
    /\ out["r1"] = <<StatusSearching, StatusReasoning,
                     <<TokenAt(1)>>, <<TokenAt(2)>>>>

Finds(s, bm, d) ==
    \E q \in QueryEmbeddings, text \in QueryTexts, top_k \in TopKs,
       doc_ids \in DocIdsInputs, neighbors \in BOOLEAN :
        LET found == search(s, bm, q, text, top_k, doc_ids, neighbors).result
        IN  \E i \in 1..Len(found) : found[i].doc_id = d

(***************************************************************************)
(* C35: after delete_document(d) has reported success no search returns   *)
(* an entry of d, with or without query text and neighbors, neither in the *)
(* process that deleted nor in the instance a new process loads from the   *)
(* directory.                                                              *)
(***************************************************************************)
C35_DeletedStaysGone ==
    /\ []((ret.op = "delete" /\ ret.success)
            => ~Finds(CurrentStore, bm25, ret.doc_id))
    /\ [][(ret.op = "delete" /\ ret.success /\ ret'.op = "init")
            => ~Finds(Store(index', documents', doc_id_to_indices'), bm25',
                      ret.doc_id)]_vars

(***************************************************************************)
(* C38: chunks_removed of a successful delete_document is the number of    *)
(* chunks that left the chunk list, the decrease of total_chunks across    *)
(* the call, also for a document that was added more than once.            *)
(***************************************************************************)
C38_ChunksRemoved ==
    [][(ret'.op = "delete" /\ ret'.success)
       => ret'.n = get_stats(CurrentStore).total_chunks
                      - Len(documents')]_vars

(***************************************************************************)
(* C39: total_chunks in the return value of add_document is                *)
(* get_stats().total_chunks read right after the call, also after a        *)
(* deletion.                                                               *)
(***************************************************************************)
C39_TotalChunks ==
    (ret.op = "add" /\ ret.success)
        => ret.total_chunks = get_stats(CurrentStore).total_chunks

\* the chunks of the list found that are not in the list kept
LeftOut(found, kept) ==
    {found[i] : i \in 1..Len(found)} \ {kept[i] : i \in 1..Len(kept)}

(***************************************************************************)
(* C31: on a miss the relevance filter removes a chunk only if its fused   *)
(* score is below 0.35; if it removes every chunk the context is built     *)
(* from the (up to three) highest-scoring retrieved chunks, so a non-empty *)
(* retrieval gives a non-empty context; the context holds at most 12       *)
(* chunks.                                                                 *)
(***************************************************************************)
C31_RelevanceFilter ==
    \A r \in Requests :
        retrieved[r].called =>
            LET found == retrieved[r].chunks
                context == retrieved[r].context
                passing == SelectSeq(found,
                                     LAMBDA ch : ch.score >= MinRelevance)
            IN  /\ Len(context) <= ContextCap
                /\ found # <<>> => context # <<>>
                /\ passing # <<>> =>
                      context = SubSeq(passing, 1,
                                       Min(ContextCap, Len(passing)))
                /\ passing = <<>> =>
                      /\ Len(context) = Min(FallbackChunks, Len(found))
                      /\ \A e \in LeftOut(found, context) :
                            \A i \in 1..Len(context) :
                                e.score <= context[i].score

\* C32: when two requests for the same normalized question were in flight
\* together and both missed, then after both completed the cache holds one
\* entry for the question, its value is the complete answer of one of the
\* two, the cache is within capacity, and every key a single write of the
\* question would have left in the cache is still there.
BothMissed ==
    /\ \A r \in Requests : pc[r] = "done" /\ retrieved[r].called
    /\ CacheKey(question["r1"]) = CacheKey(question["r2"])

C32_RaceLikeOneWrite ==
    BothMissed =>
        LET k == CacheKey(question["r1"])
        IN  /\ Cardinality({i \in 1..Len(cache) : cache[i].key = k}) = 1
            /\ CacheGet(cache, k) \in {full_response[r] : r \in Requests}
            /\ Len(cache) <= max_cache_size
            /\ Keys(CacheWrite(before["r2"], k, <<>>)) \subseteq Keys(cache)

\* C33: two add_document calls on the same store can interleave unsafely.
\* When both calls read the same start_idx and both have set their mapping
\* entry, two chunks of the list share a position, and if the calls are for
\* two documents, the recorded ranges of the two documents overlap.
SharePosition(docs) ==
    \E i, j \in 1..Len(docs) : i # j /\ docs[i].chunk_id = docs[j].chunk_id

RangesOverlap(a, b) == a.start_idx < b.end_idx /\ b.start_idx < a.end_idx

SameStart(t, u) ==
    /\ t # u
    /\ frame[t].at = "mapped"
    /\ frame[u].at = "mapped"
    /\ frame[t].start_idx = frame[u].start_idx

C33_UnsafeInterleaving ==
    \A t, u \in Threads :
        SameStart(t, u) =>
            /\ SharePosition(documents)
            /\ frame[t].doc_id # frame[u].doc_id =>
                   RangesOverlap(Lookup(doc_id_to_indices, frame[t].doc_id),
                                 Lookup(doc_id_to_indices, frame[u].doc_id))

C33_Witness ==
    /\ SameStart("t1", "t2")
    /\ frame["t1"].doc_id # frame["t2"].doc_id
    /\ SharePosition(documents)
    /\ RangesOverlap(Lookup(doc_id_to_indices, "A"),
                     Lookup(doc_id_to_indices, "B"))

\* what the request that wrote the cache entry of key k ran with
OriginOf(k) == origin[CHOOSE i \in 1..Len(origin) : origin[i].key = k]

\* C36: a request served from the cache gets an answer that was generated
\* under its own doc_id restriction.
C36_HitUnderSameRestriction ==
    \A r \in Requests :
        pc[r] = "hit" =>
            OriginOf(CacheKey(question[r])).doc_id = restriction[r]

\* C37: a request served from the cache gets an answer that was generated
\* from what the store holds now: the chunks retrieved for the cached answer
\* are the chunks the same search returns on the current store.
C37_HitFromCurrentStore ==
    \A r \in Requests :
        pc[r] = "hit" =>
            LET o == OriginOf(CacheKey(question[r]))
            IN  o.chunks = Retrieval(question[r], o.doc_id)

\* C40: a request that is not cancelled and whose token stream ends reaches
\* DONE (a request leaves every suspension for done, unless the caller
\* closed it or the stream raised), and a request that is done on the miss
\* path has its normalized question in the cache, mapped to the tokens the
\* stream produced for it, in order.
Terminal == {"done", "cancelled", "failed"}

StreamTokens(r) ==
    LET n == llm[r].n
    IN  /\ Len(full_response[r]) \in {n, n + 1}
        /\ \A i \in 1..n : full_response[r][i] = TokenAt(i)
        /\ AnswerText(out[r]) = full_response[r]

C40_ReachesDone ==
    /\ \A r \in Sequential : (pc[r] = "created") ~> (pc[r] \in Terminal)
    /\ [][\A r \in Requests :
            (pc[r] # "failed" /\ pc'[r] = "failed")
            => /\ pc[r] \in {"formulating", "token"}
               /\ Raises(llm'[r]) \in PullOutcomes(llm'[r])]_vars
    /\ [](\A r \in Requests :
            (pc[r] = "done" /\ retrieved[r].called)
            => /\ InCache(cache, CacheKey(question[r]))
               /\ CacheGet(cache, CacheKey(question[r])) = full_response[r]
               /\ StreamTokens(r))

C40_Witness ==
    /\ pc["r1"] = "done"
    /\ retrieved["r1"].called
    /\ llm["r1"].n = MaxTokens
    /\ CacheGet(cache, CacheKey(question["r1"])) =
          [i \in 1..MaxTokens |-> TokenAt(i)]

====
